---- MODULE Spec2Model ----
(***************************************************************************)
(* Model of the dialog-manager repository: the zustand registry store      *)
(* (store.ts: registerDialog / unregisterDialog / openDialog / closeDialog)*)
(* and the useDialog hook (use-dialog.tsx: open / close / updateProps, the *)
(* registration effect and the re-render effect).                          *)
(*                                                                         *)
(* React semantics kept by the model:                                      *)
(*  - setProps / setIsMounted only queue an update; the hook's returned    *)
(*    values (id, props, isMounted) and the closures open/close/updateProps*)
(*    see the values of the latest render until the next render runs;      *)
(*  - containerRef is a mutable ref and changes at once;                   *)
(*  - a render applies the queued updates and then runs the effects whose  *)
(*    dependencies changed, before any further call is served;             *)
(*  - a throw inside an immer producer leaves the store untouched and      *)
(*    propagates to the caller.                                            *)
(***************************************************************************)
EXTENDS Integers, Sequences, FiniteSets, TLC

\* Bound on the number of calls (open, close, updateProps, direct registry
\* calls) made in one behaviour.
MaxCalls == 3

\* The hook instances (controllers) of the page and the dialog ids in use.
Controllers == {"c1", "c2"}
Ids == {"modal-1", "modal-2"}

\* containerRef.current = null
Null == 0

\* Property records are functions from a subset of these keys.
Keys == {"id", "x", "y"}

\* initialProps handed to useDialog: an id plus one extra property.
InitialProps == {[id |-> i, x |-> 0] : i \in Ids}

\* Arguments passed to updateProps (Partial<T>).
Partials ==
  {[x |-> 1], [x |-> 2], [y |-> 2]} \cup {[id |-> i] : i \in Ids}

NoProps == [k \in {} |-> 0]

VARIABLES
  state,         \* store.ts: state: Record<string, {open: boolean}>
  props,         \* [c -> value of useState<T>(initialProps) seen by the last render]
  propsQueue,    \* [c -> queued setProps updaters (their newProps), oldest first]
  isMounted,     \* [c -> value of useState(false) seen by the last render]
  mountedQueue,  \* [c -> queued setIsMounted values, oldest first]
  containerRef,  \* [c -> containerRef.current: a node (index in nodes) or Null]
  nodes,         \* the <div>s made by document.createElement, in creation order
  live,          \* [c -> the hook has rendered for the first time and run its effects]
  calls,         \* number of calls made so far
  last,          \* the step taken last: what was called, by whom, and whether it threw
  pre            \* the state the last step started from (registry, DOM, refs)

vars == <<state, props, propsQueue, isMounted, mountedQueue, containerRef,
          nodes, live, calls, last, pre>>

----------------------------------------------------------------------------
(* store.ts *)

Registered(s, id) == id \in DOMAIN s

\* Mutant: an entry that is already present is left as it is.
RegisterDialogKeep(s, id) ==
  [k \in DOMAIN s \cup {id} |-> IF k \in DOMAIN s THEN s[k] ELSE [open |-> FALSE]]

\* Mutant: the store is replaced instead of extended.
RegisterDialogFresh(s, id) == [k \in {id} |-> [open |-> FALSE]]

\* state.state[id] = { open: false }
RegisterDialog(s, id) ==
  [k \in DOMAIN s \cup {id} |-> IF k = id THEN [open |-> FALSE] ELSE s[k]]

\* Mutant: the entry is closed instead of deleted.
UnregisterDialogKeep(s, id) ==
  [k \in DOMAIN s |-> IF k = id THEN [open |-> FALSE] ELSE s[k]]

\* delete state.state[id]
UnregisterDialog(s, id) ==
  [k \in DOMAIN s \ {id} |-> s[k]]

\* state.state[id].open = true   throws a TypeError when the entry is absent
OpenDialogThrows(s, id) == ~Registered(s, id)

\* Mutant: a missing entry is created instead of dereferenced.
OpenDialogUpsert(s, id) ==
  [k \in DOMAIN s \cup {id} |-> IF k = id THEN [open |-> TRUE] ELSE s[k]]

OpenDialog(s, id) ==
  IF OpenDialogThrows(s, id) THEN s ELSE [s EXCEPT ![id].open = TRUE]

\* Mutant: a missing entry is skipped silently (state.state[id]?.open).
CloseDialogNeverThrows(s, id) == FALSE

\* state.state[id].open = false  throws a TypeError when the entry is absent
CloseDialogThrows(s, id) == ~Registered(s, id)

\* Mutant: closing drops the entry (delete state.state[id]).
CloseDialogRemoves(s, id) == UnregisterDialog(s, id)

\* Mutant: the flag is toggled instead of cleared.
CloseDialogToggle(s, id) ==
  IF CloseDialogThrows(s, id) THEN s ELSE [s EXCEPT ![id].open = ~s[id].open]

CloseDialog(s, id) ==
  IF CloseDialogThrows(s, id) THEN s ELSE [s EXCEPT ![id].open = FALSE]

----------------------------------------------------------------------------
(* use-dialog.tsx: helpers *)

\* Mutant: the spreads swapped, ({ ...newProps, ...oldProps }).
MergeOldWins(oldProps, newProps) ==
  [k \in DOMAIN oldProps \cup DOMAIN newProps |->
     IF k \in DOMAIN oldProps THEN oldProps[k] ELSE newProps[k]]

\* (oldProps) => ({ ...oldProps, ...newProps })
Merge(oldProps, newProps) ==
  [k \in DOMAIN oldProps \cup DOMAIN newProps |->
     IF k \in DOMAIN newProps THEN newProps[k] ELSE oldProps[k]]

\* React applies the queued updaters in order at the next render.
RECURSIVE ApplyUpdates(_, _)
ApplyUpdates(p, q) ==
  IF q = <<>> THEN p ELSE ApplyUpdates(Merge(p, Head(q)), Tail(q))

\* setIsMounted(v): the last queued value wins at the next render.
ApplyMounted(m, q) == IF q = <<>> THEN m ELSE q[Len(q)]

\* The value of the hook's state cells once the queued updates are applied.
PropsState(c) == ApplyUpdates(props[c], propsQueue[c])
IsMountedState(c) == ApplyMounted(isMounted[c], mountedQueue[c])

\* const [{ id, ...props }, setProps] = useState<T>(initialProps)
IdOf(c) == props[c]["id"]

\* document.createElement('div'); containerRef.current.id = id
NewNode(c, id) ==
  [id |-> id, attached |-> FALSE, rendered |-> FALSE, content |-> NoProps,
   fallback |-> "none", owner |-> c]

\* ReactDOM.render(<Suspense fallback=..><Component {...props} id={id} /></Suspense>, container)
RenderInto(ns, n, p, fb) ==
  [ns EXCEPT ![n].rendered = TRUE, ![n].content = p, ![n].fallback = fb]

\* ReactDOM.unmountComponentAtNode(container)
UnmountAt(ns, n) ==
  [ns EXCEPT ![n].rendered = FALSE, ![n].content = NoProps, ![n].fallback = "none"]

\* mountTargetRef.current.appendChild(containerRef.current)
AppendToBody(ns, n) == [ns EXCEPT ![n].attached = TRUE]

\* containerRef.current.parentNode.removeChild(containerRef.current)
RemoveFromParent(ns, n) == [ns EXCEPT ![n].attached = FALSE]

Snapshot ==
  [state |-> state, nodes |-> nodes, containerRef |-> containerRef,
   mounted |-> [c \in Controllers |-> IsMountedState(c)],
   props |-> [c \in Controllers |-> PropsState(c)]]

----------------------------------------------------------------------------
Init ==
  /\ state = [k \in {} |-> [open |-> FALSE]]
  /\ props \in [Controllers -> InitialProps]
  /\ propsQueue = [c \in Controllers |-> <<>>]
  /\ isMounted = [c \in Controllers |-> FALSE]
  /\ mountedQueue = [c \in Controllers |-> <<>>]
  /\ containerRef = [c \in Controllers |-> Null]
  /\ nodes = <<>>
  /\ live = [c \in Controllers |-> FALSE]
  /\ calls = 0
  /\ last = [op |-> "init", c |-> "none", id |-> "none", newProps |-> NoProps,
             debounce |-> 0, threw |-> FALSE]
  /\ pre = Snapshot

\* First render of the hook and its effects: registerDialog(id); the
\* re-render effect does nothing because isMounted is false.
Mount(c) ==
  /\ ~live[c]
  /\ live' = [live EXCEPT ![c] = TRUE]
  /\ state' = RegisterDialog(state, IdOf(c))
  /\ last' = [op |-> "mount", c |-> c, id |-> IdOf(c), newProps |-> NoProps,
              debounce |-> 0,
              threw |-> FALSE]
  /\ pre' = Snapshot
  /\ UNCHANGED <<props, propsQueue, isMounted, mountedQueue, containerRef,
                 nodes, calls>>

\* Mutant: the guard dropped, a container is created on every open().
AlwaysNeedsContainer(c) == TRUE

\* if (!containerRef.current)
NeedsContainer(c) == containerRef[c] = Null

\* Mutant: the node made last is reused instead of a new <div>.
OpenContainerReused(c) ==
  IF NeedsContainer(c) THEN (IF Len(nodes) > 0 THEN Len(nodes) ELSE 1)
  ELSE containerRef[c]

\* The container open() works on: the existing one, or a new <div>.
OpenContainer(c) ==
  IF NeedsContainer(c) THEN Len(nodes) + 1 ELSE containerRef[c]

\* Mutant: the container is never appended to the body.
OpenNodesNoAppend(c) ==
  LET n == OpenContainer(c)
      created == IF NeedsContainer(c)
                 THEN Append(nodes, NewNode(c, IdOf(c))) ELSE nodes
  IN RenderInto(created, n, props[c], "null")

\* The DOM after open(): create the container if there is none, append it to
\* the body if it has no parent, render the component into it.
OpenNodes(c) ==
  LET n == OpenContainer(c)
      created == IF NeedsContainer(c)
                 THEN Append(nodes, NewNode(c, IdOf(c))) ELSE nodes
      appended == IF ~created[n].attached THEN AppendToBody(created, n)
                  ELSE created
  IN RenderInto(appended, n, props[c], "null")

\* function open()
Open(c) ==
  /\ live[c]
  /\ calls < MaxCalls
  /\ calls' = calls + 1
  /\ containerRef' = [containerRef EXCEPT ![c] = OpenContainer(c)]
  /\ nodes' = OpenNodes(c)
  /\ mountedQueue' = [mountedQueue EXCEPT ![c] = Append(@, TRUE)]
  /\ state' = OpenDialog(state, IdOf(c))
  /\ last' = [op |-> "open", c |-> c, id |-> IdOf(c), newProps |-> NoProps,
              debounce |-> 0,
              threw |-> OpenDialogThrows(state, IdOf(c))]
  /\ pre' = Snapshot
  /\ UNCHANGED <<props, propsQueue, isMounted, live>>

\* Mutant: the container is unmounted but left in the body.
CloseNodesNoRemove(c) ==
  IF containerRef[c] # Null THEN UnmountAt(nodes, containerRef[c]) ELSE nodes

\* The DOM after close(): unmount the content, remove the container from
\* its parent.
CloseNodes(c) ==
  LET n == containerRef[c]
      unmounted == IF n # Null THEN UnmountAt(nodes, n) ELSE nodes
  IN IF n # Null /\ unmounted[n].attached THEN RemoveFromParent(unmounted, n)
     ELSE unmounted

\* Mutant: a positive debounce defers the unmount to a timer; close() itself
\* only marks the registry entry closed.
CloseDebounced(c, debounce) ==
  /\ live[c]
  /\ calls < MaxCalls
  /\ calls' = calls + 1
  /\ last' = [op |-> "close", c |-> c, id |-> IdOf(c), newProps |-> NoProps,
              debounce |-> debounce,
              threw |-> CloseDialogThrows(state, IdOf(c))]
  /\ pre' = Snapshot
  /\ state' = CloseDialog(state, IdOf(c))
  /\ IF CloseDialogThrows(state, IdOf(c)) \/ debounce > 0
     THEN UNCHANGED <<nodes, containerRef, mountedQueue>>
     ELSE /\ nodes' = CloseNodes(c)
          /\ containerRef' = [containerRef EXCEPT ![c] = Null]
          /\ mountedQueue' = [mountedQueue EXCEPT ![c] = Append(@, FALSE)]
  /\ UNCHANGED <<props, propsQueue, isMounted, live>>

\* function close(debounce = 0)   debounce is never read
Close(c, debounce) ==
  /\ live[c]
  /\ calls < MaxCalls
  /\ calls' = calls + 1
  /\ last' = [op |-> "close", c |-> c, id |-> IdOf(c), newProps |-> NoProps,
              debounce |-> debounce,
              threw |-> CloseDialogThrows(state, IdOf(c))]
  /\ pre' = Snapshot
  /\ IF CloseDialogThrows(state, IdOf(c))
     THEN UNCHANGED <<state, nodes, containerRef, mountedQueue>>
     ELSE /\ state' = CloseDialog(state, IdOf(c))
          /\ nodes' = CloseNodes(c)
          /\ containerRef' = [containerRef EXCEPT ![c] = Null]
          /\ mountedQueue' = [mountedQueue EXCEPT ![c] = Append(@, FALSE)]
  /\ UNCHANGED <<props, propsQueue, isMounted, live>>

\* function updateProps(newProps)
UpdateProps(c, newProps) ==
  /\ live[c]
  /\ calls < MaxCalls
  /\ calls' = calls + 1
  /\ propsQueue' = [propsQueue EXCEPT ![c] = Append(@, newProps)]
  /\ last' = [op |-> "updateProps", c |-> c, id |-> IdOf(c),
              newProps |-> newProps, debounce |-> 0, threw |-> FALSE]
  /\ pre' = Snapshot
  /\ UNCHANGED <<state, props, isMounted, mountedQueue, containerRef, nodes,
                 live>>

Pending(c) == propsQueue[c] # <<>> \/ mountedQueue[c] # <<>>

\* Mutant: the effect runs on the first render only (dependencies []).
RegistrationEffectOnce(s, oldId, newId) == s

\* useEffect(() => { registerDialog(id) }, [id, registerDialog])
RegistrationEffect(s, oldId, newId) ==
  IF newId # oldId THEN RegisterDialog(s, newId) ELSE s

\* useEffect(() => { if (isMounted && containerRef.current) ReactDOM.render(...) },
\*           [props, Component, isMounted, id])   props is a fresh object every render
RerenderEffect(ns, mounted, n, p) ==
  IF mounted /\ n # Null THEN RenderInto(ns, n, p, "loading") ELSE ns

\* A re-render of the hook: the queued state updates are applied and the
\* effects run.
Render(c) ==
  /\ live[c]
  /\ Pending(c)
  /\ props' = [props EXCEPT ![c] = PropsState(c)]
  /\ isMounted' = [isMounted EXCEPT ![c] = IsMountedState(c)]
  /\ propsQueue' = [propsQueue EXCEPT ![c] = <<>>]
  /\ mountedQueue' = [mountedQueue EXCEPT ![c] = <<>>]
  /\ state' = RegistrationEffect(state, IdOf(c), PropsState(c)["id"])
  /\ nodes' = RerenderEffect(nodes, IsMountedState(c), containerRef[c],
                             PropsState(c))
  /\ last' = [op |-> "render", c |-> c, id |-> PropsState(c)["id"],
              newProps |-> NoProps, debounce |-> 0, threw |-> FALSE]
  /\ pre' = Snapshot
  /\ UNCHANGED <<containerRef, live, calls>>

Next ==
  \/ \E c \in Controllers : Mount(c)
  \/ \E c \in Controllers : Open(c)
  \/ \E c \in Controllers : \E d \in {0, 300} : Close(c, d)
  \/ \E c \in Controllers : \E p \in Partials : UpdateProps(c, p)
  \/ \E c \in Controllers : Render(c)

Spec == Init /\ [][Next]_vars

\* One controller used alone on the page.
NextSolo ==
  \/ Mount("c1")
  \/ Open("c1")
  \/ \E d \in {0, 300} : Close("c1", d)
  \/ \E p \in Partials : UpdateProps("c1", p)
  \/ Render("c1")

SpecSolo == Init /\ [][NextSolo]_vars

\* React schedules a re-render for every queued state update, so a pending
\* re-render does run.
FairSolo == SpecSolo /\ WF_vars(Render("c1"))

----------------------------------------------------------------------------
(* The registry used directly, by any consumer of useDialogManager(). *)

StoreCall(op, id, s, threw) ==
  /\ calls < MaxCalls
  /\ calls' = calls + 1
  /\ state' = s
  /\ last' = [op |-> op, c |-> "none", id |-> id, newProps |-> NoProps,
              debounce |-> 0,
              threw |-> threw]
  /\ pre' = Snapshot
  /\ UNCHANGED <<props, propsQueue, isMounted, mountedQueue, containerRef,
                 nodes, live>>

RegisterDialogCall(id) ==
  StoreCall("registerDialog", id, RegisterDialog(state, id), FALSE)

UnregisterDialogCall(id) ==
  StoreCall("unregisterDialog", id, UnregisterDialog(state, id), FALSE)

OpenDialogCall(id) ==
  StoreCall("openDialog", id, OpenDialog(state, id), OpenDialogThrows(state, id))

CloseDialogCall(id) ==
  StoreCall("closeDialog", id, CloseDialog(state, id), CloseDialogThrows(state, id))

NextStore ==
  \/ \E id \in Ids : RegisterDialogCall(id)
  \/ \E id \in Ids : UnregisterDialogCall(id)
  \/ \E id \in Ids : OpenDialogCall(id)
  \/ \E id \in Ids : CloseDialogCall(id)

SpecStore == Init /\ [][NextStore]_vars

\* The controllers, with some other consumer calling unregisterDialog.
NextUnregister ==
  \/ Next
  \/ \E id \in Ids : UnregisterDialogCall(id)

SpecUnregister == Init /\ [][NextUnregister]_vars

----------------------------------------------------------------------------
(* Properties *)

\* The step taken last is the call op made through controller c.
Called(op, c) == last.op = op /\ last.c = c

\* The step taken last is the direct registry call op.
StoreCalled(op) == last.op = op /\ last.c = "none"

\* Every entry other than id's is as it was before the last step.
OthersUntouched(id) ==
  /\ DOMAIN state \ {id} = DOMAIN pre.state \ {id}
  /\ \A k \in DOMAIN state \ {id} : state[k] = pre.state[k]

\* The nodes attached under the body.
Attached == {n \in DOMAIN nodes : nodes[n].attached}

\* No other controller of the page has been set up.
Alone(c) == \A d \in Controllers \ {c} : ~live[d]

\* A re-render leaves the returned isMounted and properties equal to the
\* hook's state cells.
RenderCommits(c) ==
  Called("render", c) =>
    /\ isMounted[c] = pre.mounted[c]
    /\ props[c] = pre.props[c]
    /\ ~Pending(c)

\* C1: for a controller whose id is registered, open() while Unmounted sets
\* the isMounted state to true (false before; the returned isMounted follows
\* at the re-render), leaves the container non-null, attached under the body
\* and rendered into, and marks the registry entry of its id open.
C1_OpenMounts ==
  \A c \in Controllers :
    /\ (Called("open", c) /\ ~pre.mounted[c] /\ Registered(pre.state, last.id)) =>
         /\ ~last.threw
         /\ IsMountedState(c)
         /\ containerRef[c] # Null
         /\ containerRef[c] \in Attached
         /\ nodes[containerRef[c]].rendered
         /\ Registered(state, last.id) /\ state[last.id].open
    /\ RenderCommits(c)

C1_Witness ==
  /\ Called("open", "c1") /\ ~pre.mounted["c1"] /\ pre.containerRef["c1"] = Null
  /\ Registered(pre.state, last.id) /\ ~pre.state[last.id].open
  /\ containerRef["c1"] \in Attached /\ state[last.id].open

\* C2: a close() that follows open() leaves the isMounted state false and the
\* container reference null, detaches the node open() created, closes the
\* registry entry of the id, and, for a controller used alone (register,
\* open, close), leaves no node with that id under the body.
C2_CloseUnmounts ==
  \A c \in Controllers :
    /\ (Called("close", c) /\ ~last.threw /\ pre.containerRef[c] # Null) =>
         /\ ~IsMountedState(c)
         /\ containerRef[c] = Null
         /\ pre.containerRef[c] \notin Attached
         /\ ~nodes[pre.containerRef[c]].rendered
         /\ Registered(state, last.id) /\ ~state[last.id].open
         /\ Alone(c) =>
              \A n \in Attached :
                nodes[n].id \notin {last.id, nodes[pre.containerRef[c]].id}
    /\ RenderCommits(c) /\ (Called("render", c) /\ ~pre.mounted[c] => ~isMounted[c])

C2_Witness ==
  /\ Called("close", "c1") /\ ~last.threw /\ calls = 2 /\ Alone("c1")
  /\ pre.containerRef["c1"] # Null /\ pre.containerRef["c1"] \in {n \in DOMAIN pre.nodes : pre.nodes[n].attached}
  /\ pre.state[last.id].open /\ ~state[last.id].open
  /\ containerRef["c1"] = Null /\ Attached = {}

\* C3: whenever no re-render is pending, the registry entry of an id is open
\* exactly when some controller whose current id is that id is Mounted.
C3_RegistryTracksMounted ==
  (\A c \in Controllers : ~Pending(c)) =>
    \A i \in DOMAIN state :
      state[i].open <=>
        \E c \in Controllers : live[c] /\ IdOf(c) = i /\ isMounted[c]

\* C4: registerDialog(id) does not throw and leaves the entry of id equal to
\* {open: false}, whether id was absent, closed or open; the other entries
\* stay, and a second registerDialog(id) changes nothing.
C4_RegisterResets ==
  StoreCalled("registerDialog") =>
    /\ ~last.threw
    /\ Registered(state, last.id) /\ state[last.id] = [open |-> FALSE]
    /\ OthersUntouched(last.id)
    /\ RegisterDialog(state, last.id) = state

C4_Witness ==
  /\ StoreCalled("registerDialog")
  /\ Registered(pre.state, last.id) /\ pre.state[last.id].open
  /\ ~state[last.id].open

\* C5: unregisterDialog(id) does not throw; it removes the entry of id when
\* present and leaves the store as it was when absent.
C5_UnregisterRemoves ==
  StoreCalled("unregisterDialog") =>
    /\ ~last.threw
    /\ ~Registered(state, last.id)
    /\ OthersUntouched(last.id)
    /\ ~Registered(pre.state, last.id) => state = pre.state

C5_Witness ==
  /\ StoreCalled("unregisterDialog")
  /\ Registered(pre.state, last.id) /\ ~Registered(state, last.id)
  /\ DOMAIN state # {}

\* C6: openDialog(id) and closeDialog(id) for an id without an entry throw
\* and leave the store as it was.
C6_UnregisteredThrows ==
  ((StoreCalled("openDialog") \/ StoreCalled("closeDialog"))
     /\ ~Registered(pre.state, last.id)) =>
    /\ last.threw
    /\ state = pre.state

C6_Witness ==
  /\ StoreCalled("openDialog") /\ ~Registered(pre.state, last.id)
  /\ last.threw /\ DOMAIN state # {}

\* C7: for a registered id, whatever its flag: openDialog leaves it open and
\* closeDialog leaves it closed, so open-then-close ends closed and
\* close-then-open ends open; repeating close-then-open changes nothing more.
C7_OpenCloseOrder ==
  /\ (StoreCalled("openDialog") /\ Registered(pre.state, last.id)) =>
       ~last.threw /\ state[last.id].open /\ OthersUntouched(last.id)
  /\ (StoreCalled("closeDialog") /\ Registered(pre.state, last.id)) =>
       ~last.threw /\ ~state[last.id].open /\ OthersUntouched(last.id)
  /\ \A id \in DOMAIN state :
       LET once == OpenDialog(CloseDialog(state, id), id)
       IN /\ ~CloseDialog(OpenDialog(state, id), id)[id].open
          /\ once[id].open
          /\ OpenDialog(CloseDialog(once, id), id) = once

C7_Witness ==
  /\ StoreCalled("openDialog") /\ ~last.threw
  /\ calls = 3 /\ ~pre.state[last.id].open /\ state[last.id].open

\* C8: open() on a Mounted controller does not throw, keeps the container
\* reference, creates no node, leaves exactly one node of the controller
\* attached under the body, keeps the isMounted state true and leaves the
\* registry entry of its id open.
C8_ReopenKeepsContainer ==
  \A c \in Controllers :
    (Called("open", c) /\ pre.mounted[c]) =>
      /\ ~last.threw
      /\ containerRef[c] # Null
      /\ containerRef[c] = pre.containerRef[c]
      /\ Len(nodes) = Len(pre.nodes)
      /\ {n \in Attached : nodes[n].owner = c} = {containerRef[c]}
      /\ IsMountedState(c)
      /\ Registered(state, last.id) /\ state[last.id].open

C8_Witness ==
  /\ Called("open", "c1") /\ pre.mounted["c1"] /\ isMounted["c1"]
  /\ containerRef["c1"] = pre.containerRef["c1"]
  /\ nodes[containerRef["c1"]].fallback = "null"
  /\ pre.nodes[containerRef["c1"]].fallback = "loading"

\* C9: close() on an Unmounted controller touches no node, keeps the
\* isMounted state false and the container null, and leaves the registry
\* store as it was.
C9_CloseUnmountedNoop ==
  \A c \in Controllers :
    (Called("close", c) /\ ~pre.mounted[c]) =>
      /\ nodes = pre.nodes
      /\ ~IsMountedState(c)
      /\ containerRef[c] = Null
      /\ state = pre.state

\* The properties and the content rendered into c's container are settled:
\* no setProps update is queued and, when Mounted, the container shows the
\* component with exactly the current properties.
Settled(c) ==
  /\ propsQueue[c] = <<>>
  /\ (isMounted[c] /\ containerRef[c] # Null) =>
       /\ nodes[containerRef[c]].rendered
       /\ nodes[containerRef[c]].content = props[c]

\* C10: updateProps(newProps) leaves the properties equal to the previous
\* ones with every key of newProps overwritten (in any state); the re-render
\* hands out exactly these properties and, when Mounted, renders the component
\* with them into the container; and a queued update is always followed by
\* that re-render.
C10_UpdatePropsMergedAndRendered ==
  /\ [](\A c \in Controllers :
          /\ Called("updateProps", c) =>
               /\ DOMAIN PropsState(c) = DOMAIN pre.props[c] \cup DOMAIN last.newProps
               /\ \A k \in DOMAIN last.newProps : PropsState(c)[k] = last.newProps[k]
               /\ \A k \in DOMAIN pre.props[c] \ DOMAIN last.newProps :
                    PropsState(c)[k] = pre.props[c][k]
          /\ RenderCommits(c)
          /\ Called("render", c) => Settled(c))
  /\ \A c \in Controllers :
       (propsQueue[c] # <<>> /\ IsMountedState(c)) ~> Settled(c)

C10_Witness ==
  /\ Called("render", "c1") /\ pre.mounted["c1"] /\ isMounted["c1"]
  /\ pre.nodes[containerRef["c1"]].content = [id |-> "modal-1", x |-> 0]
  /\ props["c1"] = [id |-> "modal-1", x |-> 1, y |-> 2]
  /\ nodes[containerRef["c1"]].content = props["c1"]
  /\ nodes[containerRef["c1"]].fallback = "loading"

\* C11: updateProps on an Unmounted controller renders into no container (nor
\* does the re-render it schedules), and the next open() renders the component
\* with the properties merged from every updateProps call made so far.
C11_UnmountedUpdateRetained ==
  \A c \in Controllers :
    /\ (Called("updateProps", c) /\ ~pre.mounted[c]) => nodes = pre.nodes
    /\ (Called("render", c) /\ ~pre.mounted[c]) => nodes = pre.nodes
    /\ (Called("open", c) /\ ~pre.mounted[c] /\ ~last.threw) =>
         /\ nodes[containerRef[c]].rendered
         /\ nodes[containerRef[c]].content = PropsState(c)

InUse(c) ==
  {n \in DOMAIN nodes : nodes[n].owner = c /\ (nodes[n].attached \/ nodes[n].rendered)}

\* C13: a controller's container is a node it created itself and shares with
\* no other controller; no other node of the controller is still in use; an
\* open() creates a node only when the controller has none, and that node is
\* a new one; every close() detaches the container and nulls the reference;
\* nothing else creates a node or changes the reference.
C13_ContainerOwned ==
  \A c \in Controllers :
    /\ containerRef[c] # Null =>
         /\ containerRef[c] \in DOMAIN nodes
         /\ nodes[containerRef[c]].owner = c
         /\ \A d \in Controllers \ {c} : containerRef[d] # containerRef[c]
    /\ InUse(c) \subseteq {containerRef[c]}
    /\ (Called("open", c) /\ pre.containerRef[c] = Null) =>
         /\ Len(nodes) = Len(pre.nodes) + 1
         /\ containerRef[c] = Len(nodes)
         /\ containerRef[c] \notin DOMAIN pre.nodes
    /\ (Called("open", c) /\ pre.containerRef[c] # Null) =>
         /\ Len(nodes) = Len(pre.nodes)
         /\ containerRef[c] = pre.containerRef[c]
    /\ (Called("close", c) /\ ~last.threw) =>
         /\ containerRef[c] = Null
         /\ Len(nodes) = Len(pre.nodes)
         /\ pre.containerRef[c] # Null => pre.containerRef[c] \notin Attached
    /\ ~(Called("open", c) \/ Called("close", c)) =>
         containerRef[c] = pre.containerRef[c]
    /\ last.op # "open" => Len(nodes) = Len(pre.nodes)

C13_Witness ==
  /\ Called("open", "c1") /\ calls = 3 /\ pre.containerRef["c1"] = Null
  /\ Len(nodes) = 2 /\ nodes[1].owner = "c1" /\ ~nodes[1].attached
  /\ containerRef["c1"] = 2 /\ nodes[2].owner = "c1" /\ nodes[2].attached

\* C14: with unregisterDialog never called, the id that a set-up controller's
\* open() and close() use always has a registry entry, also after updateProps
\* changed the id, so no open() or close() throws.
C14_EntryBeforeUse ==
  \A c \in Controllers :
    /\ live[c] => Registered(state, IdOf(c))
    /\ (Called("open", c) \/ Called("close", c)) =>
         /\ Registered(pre.state, last.id)
         /\ Registered(state, last.id)
         /\ ~last.threw

C14_Witness ==
  /\ Alone("c1") /\ Called("open", "c1") /\ ~last.threw
  /\ DOMAIN pre.state = Ids /\ state[last.id].open
  /\ \A i \in Ids \ {last.id} : ~state[i].open

\* C15: registerDialog(id), unregisterDialog(id), openDialog(id) and
\* closeDialog(id), throwing or not, leave the presence and the flag of every
\* other id's entry as they were.
C15_OnlyOwnKey ==
  (last.c = "none"
     /\ last.op \in {"registerDialog", "unregisterDialog", "openDialog", "closeDialog"}) =>
    /\ OthersUntouched(last.id)
    /\ \A k \in Ids \ {last.id} : Registered(state, k) <=> Registered(pre.state, k)

C15_Witness ==
  /\ StoreCalled("registerDialog") /\ ~Registered(pre.state, last.id)
  /\ \E k \in DOMAIN state \ {last.id} : pre.state[k].open /\ state[k].open

\* C16: no step of a controller (set-up, open, close, updateProps, re-render)
\* removes a registry entry: the set of registered ids never shrinks.
C16_EntriesNeverRemoved ==
  [][DOMAIN state \subseteq DOMAIN state']_vars

C16_Witness ==
  /\ Alone("c1") /\ Called("close", "c1") /\ ~last.threw /\ pre.mounted["c1"]
  /\ DOMAIN pre.state = Ids /\ DOMAIN state = Ids
  /\ pre.state[last.id].open /\ ~state[last.id].open

\* C17: an open() on an Unmounted controller whose id has no registry entry
\* throws and leaves the controller as it was: isMounted state false,
\* container null, no node created or attached.
C17_FailedOpenChangesNothing ==
  \A c \in Controllers :
    (Called("open", c) /\ ~pre.mounted[c] /\ ~Registered(pre.state, last.id)) =>
      /\ last.threw
      /\ ~IsMountedState(c)
      /\ containerRef[c] = Null
      /\ nodes = pre.nodes
      /\ state = pre.state

\* C18: a close() on a Mounted controller whose id has no registry entry
\* throws before any DOM step: the controller stays Mounted with the same
\* container, still attached and rendered, and the store is as it was.
C18_FailedCloseChangesNothing ==
  \A c \in Controllers :
    (Called("close", c) /\ ~Registered(pre.state, last.id)) =>
      /\ last.threw
      /\ state = pre.state
      /\ nodes = pre.nodes
      /\ containerRef = pre.containerRef
      /\ IsMountedState(c) = pre.mounted[c]
      /\ pre.mounted[c] =>
           /\ containerRef[c] # Null
           /\ containerRef[c] \in Attached
           /\ nodes[containerRef[c]].rendered

C18_Witness ==
  /\ Called("close", "c1") /\ last.threw /\ ~Registered(state, last.id)
  /\ pre.mounted["c1"] /\ isMounted["c1"] /\ IsMountedState("c1")
  /\ containerRef["c1"] \in Attached

\* C19: whenever no re-render is pending, a container attached under the body
\* carries the controller's current id as its DOM id.
C19_ContainerIdIsCurrentId ==
  \A c \in Controllers :
    (~Pending(c) /\ containerRef[c] # Null /\ containerRef[c] \in Attached) =>
      nodes[containerRef[c]].id = IdOf(c)

\* C20: for a controller used alone, after a close() that does not throw no
\* registry entry is left open.
C20_NothingLeftOpen ==
  (Alone("c1") /\ Called("close", "c1") /\ ~last.threw) =>
    \A i \in DOMAIN state : ~state[i].open

====
